---- MODULE Spec2Model ----
(***************************************************************************)
(* PumiceWiki: the authentication / authorization pipeline.                *)
(*                                                                         *)
(* State: the persistent session store (one session per browser cookie),   *)
(* the Policy Engine (policy rules p and role edges g), and the requests   *)
(* that are being served.  A request loads its session (LoadAndSave), runs *)
(* its handler on the loaded copy, and the session is written back when    *)
(* the handler has returned.                                               *)
(***************************************************************************)
EXTENDS Integers, Sequences, FiniteSets, TLC

(***************************************************************************)
(* Bounds and input sets                                                   *)
(***************************************************************************)
\* number of state tokens randString hands out in one behaviour
MaxLogins == 2

\* randString(16): the number of random bytes of a state token
StateBytes == 16

Browsers == {"b1", "b2"}
Workers  == {"w1", "w2"}

\* a state value no login ever generated (a forged or stale query parameter)
ForgedState == MaxLogins + Cardinality(Workers)

\* verified identity tokens the provider can issue: subject, role claims, name claim
NoToken == [sub |-> "", roles |-> <<>>, name |-> ""]
Tokens ==
    { [sub |-> "u1", roles |-> <<"editor">>, name |-> "Alice"],
      [sub |-> "u1", roles |-> <<"editor", "admin">>, name |-> ""],
      [sub |-> "u1", roles |-> <<>>, name |-> ""],
      [sub |-> "anonymous", roles |-> <<"editor">>, name |-> ""] }

\* outcomes of the exchange / verification part of the callback
ExchangeOutcomes ==
    {"ok", "exchange_error", "canceled", "no_id_token", "verify_error", "claims_error"}

\* requests to routes of the protected group; a path is its list of segments
ProtectedRequests ==
    { [path |-> <<"view", "Home">>,  method |-> "GET"],
      [path |-> <<"edit", "Page1">>, method |-> "GET"],
      [path |-> <<"save", "Page1">>, method |-> "POST"],
      [path |-> <<"list">>,          method |-> "GET"] }

(***************************************************************************)
(* Session store                                                           *)
(***************************************************************************)
\* an absent key reads as "" (GetString); state 0 is the empty string
EmptySession ==
    [state |-> 0, user_subject |-> "", raw_id_token |-> NoToken, user_display_name |-> ""]

(***************************************************************************)
(* Policy Engine                                                           *)
(***************************************************************************)
\* faulty variant: the wildcard stands for exactly one segment
RECURSIVE KeyMatch2_OneSegment(_, _)
KeyMatch2_OneSegment(key1, key2) ==
    IF key2 = <<>> THEN key1 = <<>>
    ELSE /\ key1 # <<>>
         /\ Head(key2) = "*" \/ Head(key1) = Head(key2)
         /\ KeyMatch2_OneSegment(Tail(key1), Tail(key2))

\* keyMatch2 on segment lists: "/*" becomes "/.*", which matches any non-empty
\* rest of the path; every other segment is compared literally
RECURSIVE KeyMatch2(_, _)
KeyMatch2(key1, key2) ==
    IF key2 = <<>> THEN key1 = <<>>
    ELSE IF Head(key2) = "*"
         THEN \E n \in 1..Len(key1) : KeyMatch2(SubSeq(key1, n + 1, Len(key1)), Tail(key2))
         ELSE /\ key1 # <<>>
              /\ Head(key1) = Head(key2)
              /\ KeyMatch2(Tail(key1), Tail(key2))

\* faulty variant: roles already visited are followed again
ClosureNext_NoVisited(edges, frontier, visited) ==
    {e[2] : e \in {d \in edges : d[1] \in frontier}}

\* faulty variant: only the roles given to the subject directly are followed
ClosureNext_DirectOnly(edges, frontier, visited) ==
    IF visited = {}
    THEN {e[2] : e \in {d \in edges : d[1] \in frontier}} \ frontier
    ELSE {}

\* one round of the closure: the roles the frontier leads to and that are new
ClosureNext(edges, frontier, visited) ==
    {e[2] : e \in {d \in edges : d[1] \in frontier}} \ (visited \cup frontier)

\* the roles reachable from name over the role edges, visited roles are not revisited
RECURSIVE Closure(_, _, _)
Closure(edges, frontier, visited) ==
    IF frontier = {} THEN visited
    ELSE Closure(edges, ClosureNext(edges, frontier, visited), visited \cup frontier)

\* g(r.sub, p.sub): the subject itself or a role of its closure
HasLink(edges, name1, name2) == name2 \in Closure(edges, {name1}, {})

\* faulty variant: every subject is also granted what anonymous is granted
Enforce_AnonymousFloor(rules, edges, sub, obj, act) ==
    \E n \in 1..Len(rules) :
        /\ (HasLink(edges, sub, rules[n][1]) \/ rules[n][1] = "anonymous")
        /\ KeyMatch2(obj, rules[n][2])
        /\ act = rules[n][3]

\* m = g(r.sub, p.sub) && keyMatch2(r.obj, p.obj) && r.act == p.act, default deny
Enforce(rules, edges, sub, obj, act) ==
    \E n \in 1..Len(rules) :
        /\ HasLink(edges, sub, rules[n][1])
        /\ KeyMatch2(obj, rules[n][2])
        /\ act = rules[n][3]

\* faulty variant: the action of the rule is not compared
Matches_AnyAction(rules, names, obj, act) ==
    \E n \in 1..Len(rules) :
        /\ rules[n][1] \in names
        /\ KeyMatch2(obj, rules[n][2])

\* the matcher over the rule table, once the closure of the subject is known
Matches(rules, names, obj, act) ==
    \E n \in 1..Len(rules) :
        /\ rules[n][1] \in names
        /\ KeyMatch2(obj, rules[n][2])
        /\ act = rules[n][3]

\* direct edges only
GetRolesForUser(edges, name) == {e[2] : e \in {d \in edges : d[1] = name}}

\* faulty variant: the old edges are kept (roles are merged, not replaced)
DeleteRolesForUser_Merge(edges, name) == edges

DeleteRolesForUser(edges, name) == {e \in edges : e[1] # name}

AddRoleForUser(edges, name, role) == edges \cup {<<name, role>>}

\* e.HasPolicy(p): the rule table holds the tuple
HasPolicy(rules, rule) == \E n \in 1..Len(rules) : rules[n] = rule

\* faulty variant: the tuple is added without asking HasPolicy first
AddPolicy_Unguarded(rules, rule) == Append(rules, rule)

\* AddPolicy guarded by HasPolicy: adding an existing tuple is a no-op
AddPolicy(rules, rule) == IF HasPolicy(rules, rule) THEN rules ELSE Append(rules, rule)

\* the default policies NewEnforcer adds after LoadPolicy
NewEnforcer(rules) ==
    LET r1 == AddPolicy(rules, <<"editor", <<"view", "*">>, "GET">>)
        r2 == AddPolicy(r1, <<"editor", <<"edit", "*">>, "GET">>)
        r3 == AddPolicy(r2, <<"editor", <<"save", "*">>, "POST">>)
        r4 == AddPolicy(r3, <<"editor", <<"list">>, "GET">>)
    IN  AddPolicy(r4, <<"anonymous", <<"view", "Home">>, "GET">>)

SeedPolicies ==
    << <<"anonymous", <<"view", "*">>, "GET">>,
       <<"anonymous", <<"auth", "login">>, "GET">>,
       <<"anonymous", <<"auth", "callback">>, "GET">>,
       <<"editor", <<"view", "*">>, "GET">>,
       <<"editor", <<"edit", "*">>, "GET">>,
       <<"editor", <<"save", "*">>, "POST">> >>

RECURSIVE SeedRules(_, _)
SeedRules(rules, n) ==
    IF n = 0 THEN rules ELSE AddPolicy(SeedRules(rules, n - 1), SeedPolicies[n])

\* faulty variant: the policies are seeded, the inheritance edge is not
seedDefaultPolicies_NoEdge(rules, edges) ==
    [p |-> SeedRules(rules, Len(SeedPolicies)), g |-> edges]

\* seedDefaultPolicies: the policies, then the edge editor -> anonymous
seedDefaultPolicies(rules, edges) ==
    [p |-> SeedRules(rules, Len(SeedPolicies)),
     g |-> IF <<"editor", "anonymous">> \in edges THEN edges
           ELSE AddRoleForUser(edges, "editor", "anonymous")]

(***************************************************************************)
(* State                                                                   *)
(***************************************************************************)
VARIABLES
    store,      \* session store: browser cookie -> session data
    p,          \* Policy Engine: the table of policy rules, in the order added
    g,          \* Policy Engine: the role edges <<user or role, role>>
    req,        \* worker -> the request it serves
    nextState,  \* the next state token randString returns
    consumed,   \* history: <<browser, state>> of callbacks that passed validation
    loggedOut,  \* history: browsers whose session was destroyed and not re-established
    lastSync,   \* history: <<browser, token>> of the latest callback that went through
    served,     \* the number of requests admitted while admission is counted
    boot,       \* the process: the startup stage it is at and the stages that succeeded
    repo,       \* page repository: the title and the content of the page
    cache,      \* page cache: title -> the cached page, or NoPage
    calls,      \* worker -> the PageService call it runs
    nextContent, \* the content the next UpdatePage call writes
    updated     \* history: the content of the latest UpdatePage that returned a page

authVars == <<store, p, g, req, nextState, consumed, loggedOut, lastSync, served, boot>>
pageVars == <<repo, cache, calls, nextContent, updated>>
vars == <<store, p, g, req, nextState, consumed, loggedOut, lastSync, served, boot,
          repo, cache, calls, nextContent, updated>>

\* page titles; the content of a page is the number of the update that wrote it
Titles == {"Home", "Page1"}
NoPage == [title |-> "", content |-> 0]
IdleCall ==
    [op |-> "none", pc |-> "idle", title |-> "", content |-> 0, page |-> NoPage,
     result |-> NoPage, err |-> FALSE, after |-> 0]

\* the page as CreatePage left it, nothing cached, no call in progress
PageInit ==
    /\ repo = [title |-> "Home", content |-> 0]
    /\ cache = [t \in Titles |-> NoPage]
    /\ calls = [w \in Workers |-> IdleCall]
    /\ nextContent = 1
    /\ updated = 0

\* the steps of main before the server is started, in their order
Stages ==
    <<"config", "secret", "migrations", "db", "authenticator", "enforcer", "views">>

\* the process once the server is started
Serving == [stage |-> "serving", passed |-> {Stages[n] : n \in 1..Len(Stages)}]

IdleReq ==
    [pc |-> "idle", kind |-> "none", sid |-> "b1", sess |-> EmptySession,
     status |-> "unmodified", qstate |-> 0,
     path |-> <<>>, method |-> "", token |-> NoToken, outcome |-> "", i |-> 0,
     subject |-> "", roles |-> {}, enfCalled |-> FALSE, enfErr |-> FALSE,
     allowed |-> FALSE, forwarded |-> FALSE,
     enfArgs |-> <<>>, stateLen |-> 0,
     code |-> 0, loc |-> "", locState |-> 0, exchanged |-> FALSE,
     replay |-> FALSE, afterLogout |-> FALSE, sess0 |-> EmptySession, g0 |-> {},
     eng |-> FALSE, frontier |-> {}, visited |-> {}]

Init ==
    /\ store = [b \in Browsers |-> EmptySession]
    /\ p = seedDefaultPolicies(NewEnforcer(<<>>), {}).p
    /\ g = seedDefaultPolicies(NewEnforcer(<<>>), {}).g
    /\ req = [w \in Workers |-> IdleReq]
    /\ nextState = 1
    /\ consumed = {}
    /\ loggedOut = {}
    /\ lastSync = <<>>
    /\ served = 0
    /\ boot = Serving
    /\ PageInit

(***************************************************************************)
(* Session middleware (LoadAndSave)                                        *)
(***************************************************************************)
Quiet == \A v \in Workers : req[v].pc = "idle"

\* the session is loaded from the store before the handler runs
Load(w, b, kind, first) ==
    [IdleReq EXCEPT !.pc = first, !.kind = kind, !.sid = b, !.sess = store[b],
                    !.sess0 = store[b], !.g0 = g, !.afterLogout = (b \in loggedOut)]

\* what the store holds for the session once the handler has returned
Saved(r, old) ==
    IF r.status \in {"modified", "destroyed"} THEN r.sess ELSE old

\* the handler has returned: the session is saved and the response is sent
Commit(w) ==
    /\ req[w].pc = "commit"
    /\ store' = [store EXCEPT ![req[w].sid] = Saved(req[w], store[req[w].sid])]
    /\ loggedOut' =
         IF req[w].status = "destroyed" THEN loggedOut \cup {req[w].sid}
         ELSE IF Saved(req[w], store[req[w].sid]).user_subject # ""
              THEN loggedOut \ {req[w].sid}
              ELSE loggedOut
    /\ req' = [req EXCEPT ![w].pc = "done"]
    /\ UNCHANGED <<p, g, nextState, consumed, lastSync, served, boot, pageVars>>

\* the connection is finished; the worker is free again
Complete(w) ==
    /\ req[w].pc = "done"
    /\ req' = [req EXCEPT ![w] = IdleReq]
    /\ UNCHANGED <<store, p, g, nextState, consumed, loggedOut, lastSync, served, boot, pageVars>>

(***************************************************************************)
(* GET /auth/login                                                         *)
(***************************************************************************)
\* base64.RawURLEncoding: the encoded length of n bytes, without padding
EncodedLen(n) == (n * 8 + 5) \div 6

\* faulty variant: the login also names a subject
PutState_SetsSubject(sess, state) ==
    [sess EXCEPT !.state = state, !.user_subject = "u1"]

\* faulty variant: a state that is already stored is kept
PutState_KeepFirst(sess, state) ==
    IF sess.state # 0 THEN sess ELSE [sess EXCEPT !.state = state]

\* h.session.Put(ctx, "state", state)
PutState(sess, state) == [sess EXCEPT !.state = state]

\* faulty variant: the redirect carries no state
AuthCodeURL_NoState(state) == 0

\* the state parameter of h.auth.AuthCodeURL(state)
AuthCodeURL(state) == state

StartLogin(w, b) ==
    /\ req[w].pc = "idle"
    /\ nextState <= MaxLogins
    /\ req' = [req EXCEPT ![w] = Load(w, b, "login", "login")]
    /\ UNCHANGED <<store, p, g, nextState, consumed, loggedOut, lastSync, boot, pageVars>>

handleLogin(w) ==
    /\ req[w].pc = "login"
    /\ \E randOk \in BOOLEAN :
         IF randOk
         THEN /\ req' = [req EXCEPT ![w].pc = "commit",
                                    ![w].sess = PutState(req[w].sess, nextState),
                                    ![w].status = "modified",
                                    ![w].stateLen = EncodedLen(StateBytes),
                                    ![w].code = 302,
                                    ![w].loc = "provider",
                                    ![w].locState = AuthCodeURL(nextState)]
              /\ nextState' = nextState + 1
         ELSE /\ req' = [req EXCEPT ![w].pc = "commit", ![w].code = 500]
              /\ UNCHANGED nextState
    /\ UNCHANGED <<store, p, g, consumed, loggedOut, lastSync, served, boot, pageVars>>

(***************************************************************************)
(* GET /auth/callback                                                      *)
(***************************************************************************)
QueryStates == (0 .. (nextState - 1)) \cup {ForgedState}

\* faulty variant: an empty session state is not rejected
StateMismatch_EmptyPasses(sess, qstate) == sess.state # 0 /\ qstate # sess.state

\* state == "" || r.URL.Query().Get("state") != state
StateMismatch(sess, qstate) == sess.state = 0 \/ qstate # sess.state

\* faulty variant: the state is left in the session after validation
RemoveState_Kept(sess) == sess

\* faulty variant: the whole session is cleared instead of the one key
RemoveState_ClearAll(sess) == EmptySession

\* h.session.Remove(ctx, "state")
RemoveState(sess) == [sess EXCEPT !.state = 0]

\* faulty variant: the subject is not put into the session
Establish_TokenOnly(sess, token) == [sess EXCEPT !.raw_id_token = token]

\* h.session.Put "raw_id_token" and "user_subject"
Establish(sess, token) ==
    [sess EXCEPT !.raw_id_token = token, !.user_subject = token.sub]

\* the code parameter is not kept: callbackExchange may answer anything for it
\* faulty variant: the error of idToken.Claims is ignored
ExchangeProceeds_ClaimsIgnored(outcome) == outcome \in {"ok", "claims_error"}

\* the callback goes on to role synchronization only when nothing has failed
ExchangeProceeds(outcome) == outcome = "ok"

StartCallback(w, b, qstate) ==
    /\ req[w].pc = "idle"
    /\ req' = [req EXCEPT ![w] =
                 [Load(w, b, "callback", "cb_validate") EXCEPT
                     !.qstate = qstate,
                     !.replay = (<<b, qstate>> \in consumed)]]
    /\ UNCHANGED <<store, p, g, nextState, consumed, loggedOut, lastSync, boot, pageVars>>

callbackValidate(w) ==
    /\ req[w].pc = "cb_validate"
    /\ IF StateMismatch(req[w].sess, req[w].qstate)
       THEN /\ req' = [req EXCEPT ![w].pc = "commit", ![w].code = 400]
            /\ UNCHANGED consumed
       ELSE /\ req' = [req EXCEPT ![w].pc = "cb_exchange",
                                  ![w].sess = RemoveState(req[w].sess),
                                  ![w].status = "modified"]
            /\ consumed' = consumed \cup {<<req[w].sid, req[w].qstate>>}
    /\ UNCHANGED <<store, p, g, nextState, loggedOut, lastSync, served, boot, pageVars>>

\* Exchange, the id_token field, Verify and Claims: any of them may fail
callbackExchange(w) ==
    /\ req[w].pc = "cb_exchange"
    /\ \E outcome \in ExchangeOutcomes, token \in Tokens :
         IF ExchangeProceeds(outcome)
         THEN req' = [req EXCEPT ![w].pc = "cb_delete", ![w].exchanged = TRUE,
                                 ![w].outcome = outcome, ![w].token = token]
         ELSE req' = [req EXCEPT ![w].pc = "commit", ![w].exchanged = TRUE,
                                 ![w].outcome = outcome, ![w].code = 500]
    /\ UNCHANGED <<store, p, g, nextState, consumed, loggedOut, lastSync, served, boot, pageVars>>

\* h.enforcer.DeleteRolesForUser(idToken.Subject)
callbackDeleteRoles(w) ==
    /\ req[w].pc = "cb_delete"
    /\ g' = DeleteRolesForUser(g, req[w].token.sub)
    /\ req' = [req EXCEPT ![w].pc = "cb_add", ![w].i = 1, ![w].eng = FALSE]
    /\ UNCHANGED <<store, p, nextState, consumed, loggedOut, lastSync, served, boot, pageVars>>

\* one iteration of: for _, role := range claims.Roles { AddRoleForUser }
callbackAddRole(w) ==
    /\ req[w].pc = "cb_add"
    /\ req[w].i <= Len(req[w].token.roles)
    /\ g' = AddRoleForUser(g, req[w].token.sub, req[w].token.roles[req[w].i])
    /\ req' = [req EXCEPT ![w].i = req[w].i + 1, ![w].eng = FALSE]
    /\ UNCHANGED <<store, p, nextState, consumed, loggedOut, lastSync, served, boot, pageVars>>

callbackEstablish(w) ==
    /\ req[w].pc = "cb_add"
    /\ req[w].i > Len(req[w].token.roles)
    /\ req' = [req EXCEPT ![w].pc = "commit",
                          ![w].sess = Establish(req[w].sess, req[w].token),
                          ![w].status = "modified",
                          ![w].code = 302, ![w].loc = "/"]
    /\ lastSync' = <<req[w].sid, req[w].token>>
    /\ UNCHANGED <<store, p, g, nextState, consumed, loggedOut, served, boot, pageVars>>

(***************************************************************************)
(* GET /auth/logout                                                        *)
(***************************************************************************)
\* faulty variant: only the login fields are cleared, the subject stays
Destroy_FieldsOnly(sess) == [sess EXCEPT !.state = 0, !.raw_id_token = NoToken]

\* h.session.Destroy(ctx): the session data is deleted as a whole
Destroy(sess) == EmptySession

StartLogout(w, b) ==
    /\ req[w].pc = "idle"
    /\ req' = [req EXCEPT ![w] = Load(w, b, "logout", "logout")]
    /\ UNCHANGED <<store, p, g, nextState, consumed, loggedOut, lastSync, boot, pageVars>>

\* faulty variant: logout also takes the subject's roles out of the engine
handleLogout_DropsRoles(w) ==
    /\ req[w].pc = "logout"
    /\ req' = [req EXCEPT ![w].pc = "commit",
                          ![w].sess = Destroy(req[w].sess),
                          ![w].status = "destroyed",
                          ![w].code = 302, ![w].loc = "/"]
    /\ g' = DeleteRolesForUser(g, req[w].sess.user_subject)
    /\ UNCHANGED <<store, p, nextState, consumed, loggedOut, lastSync, served, boot, pageVars>>

handleLogout(w) ==
    /\ req[w].pc = "logout"
    /\ req' = [req EXCEPT ![w].pc = "commit",
                          ![w].sess = Destroy(req[w].sess),
                          ![w].status = "destroyed",
                          ![w].code = 302, ![w].loc = "/"]
    /\ UNCHANGED <<store, p, g, nextState, consumed, loggedOut, lastSync, served, boot, pageVars>>

(***************************************************************************)
(* Authorization middleware on the protected routes                        *)
(***************************************************************************)
\* faulty variant: no fallback to the anonymous principal
ResolveSubject_NoFallback(sess) == sess.user_subject

\* subject := sm.GetString(ctx, "user_subject"); "" becomes "anonymous"
ResolveSubject(sess) ==
    IF sess.user_subject = "" THEN "anonymous" ELSE sess.user_subject

\* the arguments of e.Enforce(subject, r.URL.Path, r.Method)
EnforceArgs(r) == <<r.subject, r.path, r.method>>

\* faulty variant: the error of Enforce is not checked
Decide_ErrUnchecked(err, allowed) ==
    IF ~allowed THEN [code |-> 403, forwarded |-> FALSE]
    ELSE [code |-> 200, forwarded |-> TRUE]

\* the three exits of the middleware after Enforce
Decide(err, allowed) ==
    IF err THEN [code |-> 500, forwarded |-> FALSE]
    ELSE IF ~allowed THEN [code |-> 403, forwarded |-> FALSE]
    ELSE [code |-> 200, forwarded |-> TRUE]

StartProtected(w, b, rq) ==
    /\ req[w].pc = "idle"
    /\ req' = [req EXCEPT ![w] =
                 [Load(w, b, "protected", "authz_resolve") EXCEPT
                     !.path = rq.path, !.method = rq.method]]
    /\ UNCHANGED <<store, p, g, nextState, consumed, loggedOut, lastSync, boot, pageVars>>

\* faulty variant: the resolved subject is written back into the session
authzResolve_StoresSubject(w) ==
    /\ req[w].pc = "authz_resolve"
    /\ req' = [req EXCEPT ![w].pc = "authz_enforce", ![w].eng = FALSE,
                          ![w].subject = ResolveSubject(req[w].sess),
                          ![w].roles = GetRolesForUser(g, ResolveSubject(req[w].sess)),
                          ![w].sess = [req[w].sess EXCEPT
                                          !.user_subject = ResolveSubject(req[w].sess)],
                          ![w].status = "modified"]
    /\ UNCHANGED <<store, p, g, nextState, consumed, loggedOut, lastSync, served, boot, pageVars>>

\* subject, GetRolesForUser (which may fail), UserInfo in the request context
authzResolve(w) ==
    /\ req[w].pc = "authz_resolve"
    /\ \E rolesErr \in BOOLEAN :
         IF rolesErr
         THEN req' = [req EXCEPT ![w].pc = "commit", ![w].eng = FALSE,
                                 ![w].subject = ResolveSubject(req[w].sess),
                                 ![w].code = 500]
         ELSE req' = [req EXCEPT ![w].pc = "authz_enforce", ![w].eng = FALSE,
                                 ![w].subject = ResolveSubject(req[w].sess),
                                 ![w].roles = GetRolesForUser(g, ResolveSubject(req[w].sess))]
    /\ UNCHANGED <<store, p, g, nextState, consumed, loggedOut, lastSync, served, boot, pageVars>>

\* e.Enforce(subject, r.URL.Path, r.Method), then 500, 403 or next.ServeHTTP
authzEnforce(w) ==
    /\ req[w].pc = "authz_enforce"
    /\ \E err \in BOOLEAN :
         LET args == EnforceArgs(req[w])
             allowed == ~err /\ Enforce(p, g, args[1], args[2], args[3])
             d == Decide(err, allowed)
         IN  req' = [req EXCEPT ![w].pc = "commit", ![w].enfCalled = TRUE,
                                ![w].eng = FALSE,
                                ![w].enfArgs = args,
                                ![w].enfErr = err, ![w].allowed = allowed,
                                ![w].code = d.code, ![w].forwarded = d.forwarded]
    /\ UNCHANGED <<store, p, g, nextState, consumed, loggedOut, lastSync, served, boot, pageVars>>

(***************************************************************************)
(* Specification: requests are served one at a time                        *)
(***************************************************************************)
Next ==
    \E w \in Workers :
        \/ Quiet /\ UNCHANGED served /\ \E b \in Browsers : StartLogin(w, b)
        \/ Quiet /\ UNCHANGED served /\ \E b \in Browsers, qstate \in QueryStates : StartCallback(w, b, qstate)
        \/ Quiet /\ UNCHANGED served /\ \E b \in Browsers : StartLogout(w, b)
        \/ Quiet /\ UNCHANGED served /\ \E b \in Browsers, rq \in ProtectedRequests : StartProtected(w, b, rq)
        \/ handleLogin(w)
        \/ callbackValidate(w)
        \/ callbackExchange(w)
        \/ callbackDeleteRoles(w)
        \/ callbackAddRole(w)
        \/ callbackEstablish(w)
        \/ handleLogout(w)
        \/ authzResolve(w)
        \/ authzEnforce(w)
        \/ Commit(w)
        \/ Complete(w)

Spec == Init /\ [][Next]_vars

(***************************************************************************)
(* Specification: the process from its start.  main runs its startup steps *)
(* in order, each of which may fail, and starts the server last.           *)
(***************************************************************************)
\* faulty variant: a failed step is only logged and startup goes on
StageAfter_LoggedOnly(n, ok) ==
    IF n < Len(Stages) THEN Stages[n + 1] ELSE "serving"

\* where main is after step n: os.Exit(1) or log.Fatal ends the process
StageAfter(n, ok) ==
    IF ~ok THEN "exited"
    ELSE IF n < Len(Stages) THEN Stages[n + 1] ELSE "serving"

StartInit ==
    /\ store = [b \in Browsers |-> EmptySession]
    /\ p = <<>>
    /\ g = {}
    /\ req = [w \in Workers |-> IdleReq]
    /\ nextState = 1
    /\ consumed = {}
    /\ loggedOut = {}
    /\ lastSync = <<>>
    /\ served = 0
    /\ boot = [stage |-> Stages[1], passed |-> {}]
    /\ PageInit

\* one startup step; the enforcer step loads and seeds the policy tables
startupStep(n) ==
    /\ boot.stage = Stages[n]
    /\ \E ok \in BOOLEAN :
         /\ boot' = [stage |-> StageAfter(n, ok),
                     passed |-> IF ok THEN boot.passed \cup {Stages[n]} ELSE boot.passed]
         /\ IF ok /\ Stages[n] = "enforcer"
            THEN /\ p' = seedDefaultPolicies(NewEnforcer(p), g).p
                 /\ g' = seedDefaultPolicies(NewEnforcer(p), g).g
            ELSE UNCHANGED <<p, g>>
    /\ UNCHANGED <<store, req, nextState, consumed, loggedOut, lastSync, served, pageVars>>

NextStart ==
    \/ \E n \in 1..Len(Stages) : startupStep(n)
    \/ boot.stage = "serving" /\ Next

SpecStart == StartInit /\ [][NextStart]_vars

(***************************************************************************)
(* Specification: requests are served concurrently, one goroutine each.    *)
(* A call on the shared enforcer is entered and then takes effect; the     *)
(* enforcer is a plain casbin.Enforcer, so nothing holds a call back.      *)
(***************************************************************************)
\* number of requests admitted in one behaviour
MaxRequests == 4

\* the call on the enforcer a request is at: it changes the role edges, it
\* reads rules and edges, or the request is not at a call
EngineAccess(r) ==
    IF r.pc = "cb_delete" \/ (r.pc = "cb_add" /\ r.i <= Len(r.token.roles))
    THEN "write"
    ELSE IF r.pc \in {"authz_resolve", "authz_enforce"} THEN "read"
    ELSE "none"

\* the request enters its call on the enforcer
engineEnter(w) ==
    /\ EngineAccess(req[w]) # "none"
    /\ ~req[w].eng
    /\ req' = [req EXCEPT ![w].eng = TRUE]
    /\ UNCHANGED <<store, p, g, nextState, consumed, loggedOut, lastSync, served, boot, pageVars>>

Admit == served < MaxRequests /\ served' = served + 1

NextConc ==
    \E w \in Workers :
        \/ Admit /\ \E b \in Browsers : StartLogin(w, b)
        \/ Admit /\ \E b \in Browsers, qstate \in QueryStates : StartCallback(w, b, qstate)
        \/ Admit /\ \E b \in Browsers : StartLogout(w, b)
        \/ Admit /\ \E b \in Browsers, rq \in ProtectedRequests : StartProtected(w, b, rq)
        \/ handleLogin(w)
        \/ callbackValidate(w)
        \/ callbackExchange(w)
        \/ engineEnter(w)
        \/ req[w].eng /\ callbackDeleteRoles(w)
        \/ req[w].eng /\ callbackAddRole(w)
        \/ callbackEstablish(w)
        \/ handleLogout(w)
        \/ req[w].eng /\ authzResolve(w)
        \/ req[w].eng /\ authzEnforce(w)
        \/ Commit(w)
        \/ Complete(w)

SpecConc == Init /\ [][NextConc]_vars

\* the token of subject u1 with the single role editor
EditorToken == [sub |-> "u1", roles |-> <<"editor">>, name |-> "Alice"]

\* the state after one login and its callback in session b1, for u1 as editor
LoggedInInit ==
    /\ store = [b \in Browsers |->
                 IF b = "b1"
                 THEN Establish(RemoveState(PutState(EmptySession, 1)), EditorToken)
                 ELSE EmptySession]
    /\ p = seedDefaultPolicies(NewEnforcer(<<>>), {}).p
    /\ g = AddRoleForUser(
             DeleteRolesForUser(seedDefaultPolicies(NewEnforcer(<<>>), {}).g, "u1"),
             "u1", "editor")
    /\ req = [w \in Workers |-> IdleReq]
    /\ nextState = 2
    /\ consumed = {<<"b1", 1>>}
    /\ loggedOut = {}
    /\ lastSync = <<"b1", EditorToken>>
    /\ served = 0
    /\ boot = Serving
    /\ PageInit

\* concurrent requests once a subject is logged in
SpecConcLoggedIn == LoggedInInit /\ [][NextConc]_vars

(***************************************************************************)
(* Specification: requests are served one at a time and the process may    *)
(* stop while one is in service.  Sessions (mysqlstore) and the policy     *)
(* table (the adapter) are in the database and survive; what a request has *)
(* loaded and not yet saved is lost; the next start seeds again.           *)
(***************************************************************************)
Crash ==
    /\ \E w \in Workers : req[w].pc \notin {"idle", "done"}
    /\ req' = [w \in Workers |-> IdleReq]
    /\ p' = seedDefaultPolicies(NewEnforcer(p), g).p
    /\ g' = seedDefaultPolicies(NewEnforcer(p), g).g
    /\ UNCHANGED <<store, nextState, consumed, loggedOut, lastSync, served, boot, pageVars>>

NextCrash == Next \/ Crash

SpecCrash == Init /\ [][NextCrash]_vars

(***************************************************************************)
(* Specification: PageService with the page cache.  ViewPage and           *)
(* UpdatePage calls run concurrently, one repository or cache call at a    *)
(* time; UpdatePage calls follow one another.                              *)
(***************************************************************************)
\* number of UpdatePage calls in one behaviour
MaxUpdates == 2

UpdateInProgress == \E v \in Workers : calls[v].op = "update"

\* ViewPage(ctx, title) is called
StartView(w, t) ==
    /\ calls[w].pc = "idle"
    /\ calls' = [calls EXCEPT ![w] =
                   [IdleCall EXCEPT !.op = "view", !.pc = "v_cache", !.title = t,
                                    !.after = updated]]
    /\ UNCHANGED <<repo, cache, nextContent, updated>>
    /\ UNCHANGED authVars

\* s.cache.Get(cacheKey): a hit is returned; an expired entry is deleted and
\* counts as a miss
viewCacheGet(w) ==
    /\ calls[w].pc = "v_cache"
    /\ \E expired \in BOOLEAN :
         IF cache[calls[w].title] # NoPage /\ ~expired
         THEN /\ calls' = [calls EXCEPT ![w].pc = "returned",
                                        ![w].result = cache[calls[w].title]]
              /\ UNCHANGED cache
         ELSE /\ calls' = [calls EXCEPT ![w].pc = "v_repo"]
              /\ cache' = [cache EXCEPT ![calls[w].title] = NoPage]
    /\ UNCHANGED <<repo, nextContent, updated>>
    /\ UNCHANGED authVars

\* s.repo.GetPageByTitle(ctx, title)
viewRepoGet(w) ==
    /\ calls[w].pc = "v_repo"
    /\ IF repo.title = calls[w].title
       THEN calls' = [calls EXCEPT ![w].pc = "v_set", ![w].page = repo]
       ELSE calls' = [calls EXCEPT ![w].pc = "returned", ![w].err = TRUE]
    /\ UNCHANGED <<repo, cache, nextContent, updated>>
    /\ UNCHANGED authVars

\* s.cache.Set(cacheKey, bytesToCache, 5*time.Minute), then the page is returned
viewCacheSet(w) ==
    /\ calls[w].pc = "v_set"
    /\ cache' = [cache EXCEPT ![calls[w].title] = calls[w].page]
    /\ calls' = [calls EXCEPT ![w].pc = "returned", ![w].result = calls[w].page]
    /\ UNCHANGED <<repo, nextContent, updated>>
    /\ UNCHANGED authVars

\* UpdatePage(ctx, id, title, content) is called
StartUpdate(w, t) ==
    /\ calls[w].pc = "idle"
    /\ ~UpdateInProgress
    /\ nextContent <= MaxUpdates
    /\ calls' = [calls EXCEPT ![w] =
                   [IdleCall EXCEPT !.op = "update", !.pc = "u_get", !.title = t,
                                    !.content = nextContent]]
    /\ nextContent' = nextContent + 1
    /\ UNCHANGED <<repo, cache, updated>>
    /\ UNCHANGED authVars

\* s.repo.GetPageByID(ctx, id)
updateGet(w) ==
    /\ calls[w].pc = "u_get"
    /\ \E ok \in BOOLEAN :
         IF ok
         THEN calls' = [calls EXCEPT ![w].pc = "u_del_old", ![w].page = repo]
         ELSE calls' = [calls EXCEPT ![w].pc = "returned", ![w].err = TRUE]
    /\ UNCHANGED <<repo, cache, nextContent, updated>>
    /\ UNCHANGED authVars

\* s.cache.Delete("page:" + page.Title), the old title
updateDeleteOld(w) ==
    /\ calls[w].pc = "u_del_old"
    /\ cache' = [cache EXCEPT ![calls[w].page.title] = NoPage]
    /\ calls' = [calls EXCEPT ![w].pc = "u_write"]
    /\ UNCHANGED <<repo, nextContent, updated>>
    /\ UNCHANGED authVars

\* s.repo.UpdatePage(ctx, page) with the new title and content
updateWrite(w) ==
    /\ calls[w].pc = "u_write"
    /\ \E ok \in BOOLEAN :
         IF ok
         THEN /\ repo' = [title |-> calls[w].title, content |-> calls[w].content]
              /\ calls' = [calls EXCEPT ![w].pc = "u_del_new"]
         ELSE /\ calls' = [calls EXCEPT ![w].pc = "returned", ![w].err = TRUE]
              /\ UNCHANGED repo
    /\ UNCHANGED <<cache, nextContent, updated>>
    /\ UNCHANGED authVars

\* s.cache.Delete("page:" + page.Title), the new title; the page is returned
updateDeleteNew(w) ==
    /\ calls[w].pc = "u_del_new"
    /\ cache' = [cache EXCEPT ![calls[w].title] = NoPage]
    /\ calls' = [calls EXCEPT ![w].pc = "returned",
                              ![w].result = [title |-> calls[w].title,
                                             content |-> calls[w].content]]
    /\ updated' = calls[w].content
    /\ UNCHANGED <<repo, nextContent>>
    /\ UNCHANGED authVars

\* the caller has the result
pageReturn(w) ==
    /\ calls[w].pc = "returned"
    /\ calls' = [calls EXCEPT ![w] = IdleCall]
    /\ UNCHANGED <<repo, cache, nextContent, updated>>
    /\ UNCHANGED authVars

PageNext ==
    \E w \in Workers :
        \/ \E t \in Titles : StartView(w, t)
        \/ viewCacheGet(w)
        \/ viewRepoGet(w)
        \/ viewCacheSet(w)
        \/ \E t \in Titles : StartUpdate(w, t)
        \/ updateGet(w)
        \/ updateDeleteOld(w)
        \/ updateWrite(w)
        \/ updateDeleteNew(w)
        \/ pageReturn(w)

PageSpec == Init /\ [][PageNext]_vars

(***************************************************************************)
(* The Policy Engine on its own: the calls the program makes on it, with   *)
(* Enforce taken round by round                                            *)
(***************************************************************************)
Names == {"u1", "admin", "editor", "anonymous"}

\* role edges AddRoleForUser is called with
EdgeChoices ==
    { <<"u1", "admin">>, <<"u1", "editor">>, <<"admin", "editor">>,
      <<"anonymous", "editor">>, <<"editor", "editor">> }

\* policies added beside the defaults
ExtraPolicies ==
    { <<"anonymous", <<"view", "*">>, "GET">>,
      <<"editor", <<"save", "NewCategorizedPage">>, "POST">> }

QueryPaths ==
    { <<"view", "Home">>, <<"view", "Any", "Thing">>, <<"viewX">>, <<"ed">>,
      <<"edit", "Page1">>, <<"auth", "login">> }

QueryMethods == {"GET", "POST", "get"}

\* the record of the engine call made last
EngineCall(kind) == [IdleReq EXCEPT !.kind = kind]

EngineBusy == req["w1"].pc = "closure"

\* auth.NewEnforcer on an empty policy table
EngineInit ==
    /\ store = [b \in Browsers |-> EmptySession]
    /\ p = NewEnforcer(<<>>)
    /\ g = {}
    /\ req = [w \in Workers |-> IdleReq]
    /\ nextState = 1
    /\ consumed = {}
    /\ loggedOut = {}
    /\ lastSync = <<>>
    /\ served = 0
    /\ boot = Serving
    /\ PageInit

\* an application start: NewEnforcer, then seedDefaultPolicies
EngineSeed ==
    /\ ~EngineBusy
    /\ p' = seedDefaultPolicies(NewEnforcer(p), g).p
    /\ g' = seedDefaultPolicies(NewEnforcer(p), g).g
    /\ req' = [req EXCEPT !["w1"] =
                 [EngineCall("seed") EXCEPT
                     !.i = IF req["w1"].kind = "seed" THEN 2 ELSE 1]]
    /\ UNCHANGED <<store, nextState, consumed, loggedOut, lastSync, served, boot, pageVars>>

EngineAddPolicy(rule) ==
    /\ ~EngineBusy
    /\ p' = AddPolicy(p, rule)
    /\ req' = [req EXCEPT !["w1"] = EngineCall("policy")]
    /\ UNCHANGED <<store, g, nextState, consumed, loggedOut, lastSync, served, boot, pageVars>>

EngineAddRole(edge) ==
    /\ ~EngineBusy
    /\ g' = AddRoleForUser(g, edge[1], edge[2])
    /\ req' = [req EXCEPT !["w1"] = EngineCall("role")]
    /\ UNCHANGED <<store, p, nextState, consumed, loggedOut, lastSync, served, boot, pageVars>>

EngineDeleteRoles(name) ==
    /\ ~EngineBusy
    /\ g' = DeleteRolesForUser(g, name)
    /\ req' = [req EXCEPT !["w1"] = EngineCall("role")]
    /\ UNCHANGED <<store, p, nextState, consumed, loggedOut, lastSync, served, boot, pageVars>>

\* Enforce(sub, obj, act) begins: the closure starts from the subject
EngineEnforce(sub, obj, act) ==
    /\ ~EngineBusy
    /\ req' = [req EXCEPT !["w1"] =
                 [EngineCall("enforce") EXCEPT
                     !.pc = "closure", !.subject = sub, !.path = obj,
                     !.method = act, !.frontier = {sub}]]
    /\ UNCHANGED <<store, p, g, nextState, consumed, loggedOut, lastSync, served, boot, pageVars>>

\* one round of the closure
EngineClosureStep ==
    /\ req["w1"].pc = "closure"
    /\ req["w1"].frontier # {}
    /\ req' = [req EXCEPT
                 !["w1"].frontier = ClosureNext(g, req["w1"].frontier, req["w1"].visited),
                 !["w1"].visited = req["w1"].visited \cup req["w1"].frontier]
    /\ UNCHANGED <<store, p, g, nextState, consumed, loggedOut, lastSync, served, boot, pageVars>>

\* the closure is complete: the rules decide
EngineDecide ==
    /\ req["w1"].pc = "closure"
    /\ req["w1"].frontier = {}
    /\ req' = [req EXCEPT
                 !["w1"].pc = "decided", !["w1"].enfCalled = TRUE,
                 !["w1"].allowed = Matches(p, req["w1"].visited, req["w1"].path,
                                           req["w1"].method)]
    /\ UNCHANGED <<store, p, g, nextState, consumed, loggedOut, lastSync, served, boot, pageVars>>

EngineNext ==
    \/ EngineSeed
    \/ \E rule \in ExtraPolicies : EngineAddPolicy(rule)
    \/ \E edge \in EdgeChoices : EngineAddRole(edge)
    \/ \E name \in Names : EngineDeleteRoles(name)
    \/ \E sub \in Names, obj \in QueryPaths, act \in QueryMethods : EngineEnforce(sub, obj, act)
    \/ EngineClosureStep
    \/ EngineDecide

EngineSpec == EngineInit /\ [][EngineNext]_vars

\* a call of Enforce that has begun goes on
EngineLive == EngineSpec /\ WF_vars(EngineClosureStep) /\ WF_vars(EngineDecide)

(***************************************************************************)
(* Properties                                                              *)
(***************************************************************************)
Range(seq) == {seq[n] : n \in 1..Len(seq)}

Callbacks == {w \in Workers : req[w].kind = "callback"}
Protected == {w \in Workers : req[w].kind = "protected"}
Finished(w) == req[w].pc \in {"commit", "done"}

\* a callback that passed state validation and then failed
FailedAfterValidation(w) ==
    req[w].kind = "callback" /\ req[w].outcome \notin {"", "ok"}

\* a callback that went through to the redirect
Successful(w) ==
    req[w].kind = "callback" /\ req[w].outcome = "ok" /\ Finished(w)

\* C1: a callback that carries a state value which an earlier callback of the
\* same session has already passed validation with is answered 400: it reaches
\* neither the exchange nor the session, whatever became of the earlier one.
C1_StateSingleUse ==
    \A w \in Callbacks :
        (req[w].replay /\ req[w].pc # "cb_validate") =>
            /\ req[w].code = 400
            /\ ~req[w].exchanged
            /\ req[w].outcome = ""
            /\ req[w].sess = req[w].sess0

\* a replay answered 400 in a session whose earlier callback failed after validation
C1_Witness ==
    \E w \in Callbacks :
        /\ req[w].replay /\ req[w].pc = "done" /\ req[w].code = 400
        /\ req[w].qstate # 0
        /\ store[req[w].sid].user_subject = ""
        /\ req[w].sid \notin loggedOut

\* C2: a callback whose state parameter differs from the session's state, or
\* whose session holds no state, is answered 400 without exchange, without a
\* change of the role edges and with the session's user_subject as it was.
C2_MismatchRejected ==
    \A w \in Callbacks :
        ((req[w].qstate # req[w].sess0.state \/ req[w].sess0.state = 0)
            /\ req[w].pc # "cb_validate") =>
            /\ req[w].code = 400
            /\ ~req[w].exchanged
            /\ req[w].outcome = ""
            /\ g = req[w].g0
            /\ req[w].sess.user_subject = req[w].sess0.user_subject
            /\ store[req[w].sid].user_subject = req[w].sess0.user_subject

\* a forged state is rejected in a session that holds another state and a subject
C2_Witness ==
    \E w \in Callbacks :
        /\ req[w].pc = "done" /\ req[w].code = 400
        /\ req[w].sess0.state # 0
        /\ req[w].qstate # req[w].sess0.state
        /\ req[w].sess0.user_subject = "u1"

\* the absent parameter in a session without state is rejected as well
C2_WitnessEmpty ==
    \E w \in Callbacks :
        /\ req[w].pc = "done" /\ req[w].code = 400
        /\ req[w].sess0.state = 0 /\ req[w].qstate = 0

\* C3: a callback that fails after state validation is answered 500; neither
\* user_subject nor the raw identity token is written and no role edge changes.
C3_FailureWritesNothing ==
    \A w \in Workers :
        FailedAfterValidation(w) =>
            /\ req[w].code = 500
            /\ req[w].sess.user_subject = req[w].sess0.user_subject
            /\ req[w].sess.raw_id_token = req[w].sess0.raw_id_token
            /\ store[req[w].sid].user_subject = req[w].sess0.user_subject
            /\ store[req[w].sid].raw_id_token = req[w].sess0.raw_id_token
            /\ g = req[w].g0

\* a failed verification has been answered and saved
C3_Witness ==
    \E w \in Workers :
        /\ FailedAfterValidation(w) /\ req[w].pc = "done"
        /\ req[w].outcome = "verify_error"
        /\ req[w].code = 500

\* C4 as stated: after a callback that failed after state validation every
\* session key, state included, has the value it had before the request.
C4_SessionUntouched ==
    \A w \in Workers :
        (FailedAfterValidation(w) /\ req[w].pc = "done") =>
            store[req[w].sid] = req[w].sess0

\* C4 amended: after a callback that failed after state validation the state
\* key is removed and every other session key has the value it had before.
C4_OnlyStateRemoved ==
    \A w \in Workers :
        (FailedAfterValidation(w) /\ req[w].pc = "done") =>
            store[req[w].sid] = [req[w].sess0 EXCEPT !.state = 0]

\* a failed callback in a session that already holds a subject
C4_Witness ==
    \E w \in Workers :
        /\ FailedAfterValidation(w) /\ req[w].pc = "done"
        /\ req[w].sess0.user_subject = "u1"
        /\ req[w].sess0.state # 0
        /\ store[req[w].sid].state = 0

\* C5: after a successful callback for subject s with role claims R the
\* direct role edges of s are exactly R, whatever edges s held before.
C5_RoleReplace ==
    \A w \in Workers :
        Successful(w) =>
            GetRolesForUser(g, req[w].token.sub) = Range(req[w].token.roles)

\* a subject that held {editor, admin} logs in with editor only
C5_Witness ==
    \E w \in Workers :
        /\ Successful(w) /\ req[w].pc = "done"
        /\ req[w].token.roles = <<"editor">>
        /\ GetRolesForUser(req[w].g0, req[w].token.sub) = {"editor", "admin"}
        /\ GetRolesForUser(g, req[w].token.sub) = {"editor"}

\* C6: after a successful callback the session holds the raw identity token,
\* the token's subject as user_subject and the token's name as
\* user_display_name, and the response is 302 to "/".
C6_SessionEstablished ==
    \A w \in Workers :
        (Successful(w) /\ req[w].pc = "done") =>
            /\ store[req[w].sid].raw_id_token = req[w].token
            /\ store[req[w].sid].user_subject = req[w].token.sub
            /\ store[req[w].sid].user_display_name = req[w].token.name
            /\ req[w].code = 302
            /\ req[w].loc = "/"

\* C7: logout destroys the whole session and answers 302 to "/"; a protected
\* request of that session afterwards runs as anonymous, so it is forwarded
\* only if the anonymous principal is allowed.
C7_LogoutAnonymous ==
    /\ \A w \in Workers :
          (req[w].kind = "logout" /\ req[w].pc = "done") =>
              /\ req[w].code = 302 /\ req[w].loc = "/"
              /\ store[req[w].sid] = EmptySession
    /\ \A w \in Protected :
          (req[w].afterLogout /\ req[w].pc # "authz_resolve") =>
              /\ req[w].subject = "anonymous"
              /\ (Finished(w) /\ ~Enforce(p, g, "anonymous", req[w].path, req[w].method))
                    => (~req[w].forwarded /\ req[w].code \in {403, 500})

\* after logout GET /edit/Page1 is answered 403 although the editor edge of u1 remains
C7_Witness ==
    \E w \in Protected :
        /\ req[w].afterLogout /\ req[w].pc = "done"
        /\ req[w].path = <<"edit", "Page1">> /\ req[w].method = "GET"
        /\ req[w].code = 403
        /\ <<"u1", "editor">> \in g
        /\ Enforce(p, g, "u1", req[w].path, req[w].method)

\* C8: a login request whose state token was generated stores that fresh
\* token (16 random bytes, 22 characters) under state, answers 302 to the
\* provider with exactly the stored value, exchanges nothing and changes
\* neither user_subject nor the Policy Engine.
C8_LoginStoresState ==
    \A w \in Workers :
        (req[w].kind = "login" /\ Finished(w)) =>
            /\ req[w].code \in {302, 500}
            /\ ~req[w].exchanged
            /\ req[w].sess.user_subject = req[w].sess0.user_subject
            /\ store[req[w].sid].user_subject = req[w].sess0.user_subject
            /\ g = req[w].g0
            /\ req[w].code = 500 => req[w].sess = req[w].sess0
            /\ req[w].code = 302 =>
                 /\ req[w].loc = "provider"
                 /\ req[w].sess.state # 0
                 /\ req[w].locState = req[w].sess.state
                 /\ req[w].stateLen = 22
                 /\ req[w].sess = [req[w].sess0 EXCEPT !.state = req[w].locState]
                 /\ <<req[w].sid, req[w].locState>> \notin consumed
                 /\ \A b \in Browsers \ {req[w].sid} : store[b].state # req[w].locState
                 /\ req[w].pc = "done" => store[req[w].sid].state = req[w].locState

\* a login in an authenticated session has stored its token
C8_Witness ==
    \E w \in Workers :
        /\ req[w].kind = "login" /\ req[w].pc = "done" /\ req[w].code = 302
        /\ store[req[w].sid].state = req[w].locState
        /\ store[req[w].sid].user_subject = "u1"

\* C9: the wrapped handler is invoked exactly when Enforce returned allowed
\* without error; an engine error is answered 500 and a denial 403.
C9_ForwardIffAllowed ==
    \A w \in Protected :
        Finished(w) =>
            /\ req[w].forwarded <=> (req[w].enfCalled /\ ~req[w].enfErr /\ req[w].allowed)
            /\ (req[w].enfCalled /\ ~req[w].enfErr) =>
                 req[w].allowed = Enforce(p, g, req[w].subject, req[w].path, req[w].method)
            /\ (~req[w].enfCalled \/ req[w].enfErr) => req[w].code = 500
            /\ (req[w].enfCalled /\ ~req[w].enfErr /\ ~req[w].allowed) => req[w].code = 403
            /\ req[w].forwarded => req[w].code = 200

\* all three exits are taken: forwarded, 403 and 500 from Enforce
C9_Witness ==
    \E w \in Protected :
        /\ req[w].pc = "done" /\ req[w].enfCalled /\ req[w].enfErr /\ req[w].code = 500

C9_WitnessForwarded ==
    \E w \in Protected : req[w].pc = "done" /\ req[w].forwarded /\ req[w].subject = "u1"

\* C10: Enforce is called with the session's user_subject, or anonymous when
\* that is empty, and with the request's path and method.
C10_EnforceArguments ==
    \A w \in Protected :
        req[w].enfCalled =>
            req[w].enfArgs =
                << IF store[req[w].sid].user_subject = "" THEN "anonymous"
                   ELSE store[req[w].sid].user_subject,
                   req[w].path, req[w].method >>

\* both cases: a named subject and the anonymous fallback
C10_Witness ==
    \E w \in Protected :
        /\ req[w].enfCalled /\ req[w].enfArgs[1] = "u1"
        /\ store[req[w].sid].user_subject = "u1"

C10_WitnessAnonymous ==
    \E w \in Protected :
        /\ req[w].enfCalled /\ req[w].enfArgs[1] = "anonymous"
        /\ store[req[w].sid].user_subject = ""

\* C18: the Authorization Middleware only reads: at every point of a request
\* to a protected route the session it works on is the session that was
\* loaded and is not marked for saving, and no step of such a request changes
\* the session store, the policy rules or the role edges.
C18_MiddlewareReadOnly ==
    /\ [](\A w \in Protected :
            req[w].sess = req[w].sess0 /\ req[w].status = "unmodified")
    /\ [][(\E w \in Workers : req'[w].kind = "protected" /\ req'[w] # req[w])
            => (store' = store /\ p' = p /\ g' = g)]_vars

\* a request of a logged-in subject was forwarded and its session is as before
C18_Witness ==
    \E w \in Protected :
        /\ req[w].pc = "done" /\ req[w].forwarded
        /\ req[w].subject = "u1"
        /\ store[req[w].sid] = req[w].sess0
        /\ g = req[w].g0

\* the latest callback that went through was one of session b for subject u1
\* with the single role editor
EditorLogin(b) ==
    /\ lastSync # <<>>
    /\ lastSync[1] = b
    /\ lastSync[2].sub = "u1"
    /\ lastSync[2].roles = <<"editor">>

\* C20: when the latest successful callback was one of this session, for
\* subject u1 with the role editor, and the session was not destroyed since,
\* a GET /edit/Page1 of the session on which Enforce answers without error is
\* forwarded to the page handler, provided the rule (editor, /edit/*, GET) is
\* in the rule table.
C20_LoginGrantsRolePermissions ==
    \A w \in Protected :
        ( /\ Finished(w)
          /\ req[w].path = <<"edit", "Page1">> /\ req[w].method = "GET"
          /\ EditorLogin(req[w].sid)
          /\ ~req[w].afterLogout
          /\ HasPolicy(p, <<"editor", <<"edit", "*">>, "GET">>)
          /\ req[w].enfCalled /\ ~req[w].enfErr )
        => (req[w].forwarded /\ req[w].code = 200)

\* the edit page was served to u1 after the login of its session
C20_Witness ==
    \E w \in Protected :
        /\ req[w].pc = "done" /\ req[w].forwarded
        /\ req[w].path = <<"edit", "Page1">> /\ req[w].method = "GET"
        /\ EditorLogin(req[w].sid)
        /\ req[w].subject = "u1"
        /\ req[w].roles = {"editor"}

\* the engine as it stands after startup
Seeded == seedDefaultPolicies(NewEnforcer(<<>>), {})

\* no callback is between the removal of a subject's roles and the last addition
NoSyncUnderWay == \A v \in Workers : req[v].pc # "cb_add"

\* C26: whatever callbacks have gone through, the anonymous principal is
\* allowed exactly the requests it was allowed right after seeding.
C26_AnonymousUnchangedByLogins ==
    NoSyncUnderWay =>
        \A rq \in ProtectedRequests :
            Enforce(p, g, "anonymous", rq.path, rq.method)
                = Enforce(Seeded.p, Seeded.g, "anonymous", rq.path, rq.method)

\* the callback on worker w is about to be committed with a verified token
\* after its state parameter matched the non-empty state its session held
VerifiedCallback(w) ==
    /\ req[w].kind = "callback"
    /\ req[w].pc = "commit"
    /\ req[w].outcome = "ok"
    /\ req[w].token \in Tokens
    /\ req[w].sess0.state # 0
    /\ req[w].qstate = req[w].sess0.state
    /\ <<req[w].sid, req[w].qstate>> \in consumed

\* C27: a session's user_subject, when not empty, is the subject of the
\* verified identity token kept in that session, and the session has had a
\* callback whose state matched; the only step that gives a session a new
\* non-empty user_subject is the commit of a callback of that session whose
\* state matched the stored state and whose token was verified, and the new
\* value is that token's subject.
C27_SubjectOnlyFromVerifiedCallback ==
    /\ [](\A b \in Browsers :
            store[b].user_subject # "" =>
                /\ store[b].raw_id_token \in Tokens
                /\ store[b].user_subject = store[b].raw_id_token.sub
                /\ \E c \in consumed : c[1] = b /\ c[2] # 0)
    /\ [][\A b \in Browsers :
            (store'[b].user_subject # store[b].user_subject
                /\ store'[b].user_subject # "") =>
                \E w \in Workers :
                    /\ VerifiedCallback(w)
                    /\ req[w].sid = b
                    /\ store'[b].user_subject = req[w].token.sub]_vars

\* a session that had no subject has got one from a callback
C27_Witness ==
    \E w \in Callbacks :
        /\ req[w].pc = "done" /\ req[w].outcome = "ok"
        /\ req[w].sess0.user_subject = ""
        /\ store[req[w].sid].user_subject = req[w].token.sub
        /\ store[req[w].sid].user_subject # ""

\* the subject has no role edge and no rule names it
Bare(sub) ==
    /\ GetRolesForUser(g, sub) = {}
    /\ \A n \in 1..Len(p) : p[n][1] # sub

\* C28: a request to a protected route from a session with a non-empty
\* user_subject that has no role edge and that no rule names is answered 403
\* and not forwarded whenever Enforce answers without error, on every route,
\* those allowed to the anonymous principal included.
C28_RolelessSubjectDenied ==
    \A w \in Protected :
        ( /\ Finished(w)
          /\ req[w].sess.user_subject # ""
          /\ Bare(req[w].sess.user_subject)
          /\ req[w].enfCalled /\ ~req[w].enfErr )
        => (req[w].code = 403 /\ ~req[w].forwarded)

\* u1, logged in with a token without roles, was refused GET /view/Home,
\* which a visitor without a session is allowed
C28_Witness ==
    \E w \in Protected :
        /\ req[w].pc = "done" /\ req[w].code = 403
        /\ req[w].path = <<"view", "Home">> /\ req[w].method = "GET"
        /\ req[w].sess.user_subject = "u1"
        /\ req[w].sess.raw_id_token.roles = <<>>
        /\ Bare("u1")
        /\ Enforce(p, g, "anonymous", req[w].path, req[w].method)

\* C29: a login answered 302 in a session that still holds the state token
\* of an earlier login leaves the session with the new token only; from then
\* on a callback that carries a token issued before the one the session holds
\* is answered 400 without an exchange, and a callback that carries the token
\* the session holds passes state validation.
C29_LatestLoginWins ==
    /\ \A w \in Workers :
        (req[w].kind = "login" /\ req[w].pc = "done" /\ req[w].code = 302
            /\ req[w].sess0.state # 0) =>
            /\ store[req[w].sid].state = req[w].locState
            /\ store[req[w].sid].state # req[w].sess0.state
    /\ \A w \in Callbacks :
        (req[w].pc # "cb_validate" /\ req[w].sess0.state # 0) =>
            /\ req[w].qstate \in 1 .. (req[w].sess0.state - 1) =>
                 (req[w].code = 400 /\ ~req[w].exchanged /\ req[w].sess = req[w].sess0)
            /\ req[w].qstate = req[w].sess0.state =>
                 (req[w].code # 400
                    /\ <<req[w].sid, req[w].qstate>> \in consumed)

\* both tokens were issued to the session of the callback and none was used
\* before: the callback with the first one was answered 400
C29_Witness ==
    \E w \in Callbacks :
        /\ req[w].pc = "done" /\ req[w].code = 400
        /\ req[w].qstate = 1 /\ req[w].sess0.state = 2
        /\ store[req[w].sid].state = 2
        /\ consumed = {} /\ loggedOut = {}
        /\ \A b \in Browsers \ {req[w].sid} : store[b] = EmptySession

\* the callback with the second token of the same session went past validation
C29_WitnessSecond ==
    \E w \in Callbacks :
        /\ req[w].pc = "cb_exchange"
        /\ req[w].qstate = 2 /\ req[w].sess0.state = 2
        /\ consumed = {<<req[w].sid, 2>>} /\ loggedOut = {}
        /\ \A b \in Browsers \ {req[w].sid} : store[b] = EmptySession

\* the subjects a role edge can start from
EdgeSources == {e[1] : e \in g} \cup {t.sub : t \in Tokens}

\* C30: no step of a logout request changes the rules or the role edges; the
\* direct roles of a subject change only in a step of a callback for that
\* same subject; and while no callback is replacing roles, the subject of the
\* latest successful callback holds exactly the roles of that callback's
\* token, also after the session of that callback has been logged out.
C30_LogoutKeepsEngine ==
    /\ [][(\E w \in Workers : req'[w].kind = "logout" /\ req'[w] # req[w])
            => (p' = p /\ g' = g)]_vars
    /\ [][\A s \in EdgeSources :
            GetRolesForUser(g', s) # GetRolesForUser(g, s) =>
                \E w \in Callbacks :
                    /\ req[w].token.sub = s
                    /\ req[w].pc \in {"cb_delete", "cb_add"}
                    /\ req[w].outcome = "ok"]_vars
    /\ [](( lastSync # <<>> /\ NoSyncUnderWay ) =>
            GetRolesForUser(g, lastSync[2].sub) = Range(lastSync[2].roles))

\* u1 has logged out of the session of its latest callback and is still an editor
C30_Witness ==
    \E w \in Workers :
        /\ req[w].kind = "logout" /\ req[w].pc = "done"
        /\ req[w].sess0.user_subject = "u1"
        /\ store[req[w].sid] = EmptySession
        /\ lastSync # <<>> /\ lastSync[1] = req[w].sid /\ lastSync[2].sub = "u1"
        /\ GetRolesForUser(g, "u1") = {"editor"}
        /\ Enforce(p, g, "u1", <<"edit", "Page1">>, "GET")

(***************************************************************************)
(* Properties of the startup                                               *)
(***************************************************************************)
\* C21: a request is in service only when the server has been started after
\* configuration, session secret, migrations, database, authenticator and
\* enforcer have all succeeded; a process that ended at a failed step has
\* served nothing.
C21_StartupAllOrNothing ==
    /\ (\E w \in Workers : req[w].pc # "idle") =>
          /\ boot.stage = "serving"
          /\ {"config", "secret", "migrations", "db", "authenticator", "enforcer"}
                \subseteq boot.passed
    /\ boot.stage = "exited" =>
          /\ \A w \in Workers : req[w] = IdleReq
          /\ store = [b \in Browsers |-> EmptySession]
          /\ nextState = 1

\* a request was answered by a process whose startup went through
C21_Witness ==
    /\ boot = Serving
    /\ \E w \in Workers : req[w].pc = "done" /\ req[w].code = 200

\* the process ended when the enforcer could not be built
C21_WitnessExit ==
    /\ boot.stage = "exited"
    /\ boot.passed = {"config", "secret", "migrations", "db", "authenticator"}

(***************************************************************************)
(* Properties of the Policy Engine                                         *)
(***************************************************************************)
\* the call of Enforce that has returned last, if any
Decided == req["w1"].kind = "enforce" /\ req["w1"].pc = "decided"

\* name2 is name1 or is reached from it over at most k role edges
RECURSIVE Reaches(_, _, _)
Reaches(name1, name2, k) ==
    \/ name1 = name2
    \/ k > 0 /\ \E e \in g : e[1] = name1 /\ Reaches(e[2], name2, k - 1)

\* C11: a call of Enforce returns false when the rule table holds no rule
\* with exactly the requested action and a pattern matching the requested
\* resource for the subject or for a role the subject reaches over the role
\* edges (default deny).
C11_DefaultDeny ==
    (Decided /\ ~\E n \in 1..Len(p) :
                    /\ p[n][3] = req["w1"].method
                    /\ KeyMatch2(req["w1"].path, p[n][2])
                    /\ Reaches(req["w1"].subject, p[n][1], Cardinality(g)))
        => ~req["w1"].allowed

\* anonymous is refused GET /edit/Page1 although editor, which it does not
\* reach, has the rule
C11_Witness ==
    /\ Decided /\ ~req["w1"].allowed
    /\ req["w1"].subject = "anonymous"
    /\ req["w1"].path = <<"edit", "Page1">> /\ req["w1"].method = "GET"
    /\ HasPolicy(p, <<"editor", <<"edit", "*">>, "GET">>)
    /\ <<"editor", "anonymous">> \in g

\* C12: when the only role given to a subject directly is A, A inherits from
\* B, B inherits from C, and C has a rule for a resource and an action, Enforce
\* allows the subject that resource and action.
C12_TransitiveInheritance ==
    Decided =>
        \A a \in Names, b \in Names, c \in Names, n \in 1..Len(p) :
            ( /\ GetRolesForUser(g, req["w1"].subject) = {a}
              /\ <<a, b>> \in g /\ <<b, c>> \in g
              /\ p[n][1] = c
              /\ p[n][3] = req["w1"].method
              /\ KeyMatch2(req["w1"].path, p[n][2]) )
            => req["w1"].allowed

\* u1 -> admin -> editor -> anonymous, and only anonymous may GET /auth/login
C12_Witness ==
    /\ Decided /\ req["w1"].allowed
    /\ req["w1"].subject = "u1"
    /\ GetRolesForUser(g, "u1") = {"admin"}
    /\ GetRolesForUser(g, "admin") = {"editor"}
    /\ GetRolesForUser(g, "editor") = {"anonymous"}
    /\ req["w1"].path = <<"auth", "login">> /\ req["w1"].method = "GET"

\* C13: a rule with the pattern /view/* gives its subject /view/Home and
\* /view/Any/Thing; no rule of the table gives /viewX or /ed; and a request
\* whose action differs from the rules' actions in case only is refused.
C13_WildcardMatching ==
    Decided =>
        /\ ( /\ req["w1"].path \in {<<"view", "Home">>, <<"view", "Any", "Thing">>}
             /\ HasPolicy(p, <<req["w1"].subject, <<"view", "*">>, req["w1"].method>>) )
           => req["w1"].allowed
        /\ req["w1"].path \in {<<"viewX">>, <<"ed">>} => ~req["w1"].allowed
        /\ req["w1"].method = "get" => ~req["w1"].allowed

\* /view/* covers a path of two more segments
C13_Witness ==
    /\ Decided /\ req["w1"].allowed
    /\ req["w1"].path = <<"view", "Any", "Thing">>
    /\ HasPolicy(p, <<req["w1"].subject, <<"view", "*">>, "GET">>)

\* /viewX is refused to a subject that has the rule /view/*
C13_WitnessNoBoundary ==
    /\ Decided /\ ~req["w1"].allowed
    /\ req["w1"].path = <<"viewX">> /\ req["w1"].method = "GET"
    /\ HasPolicy(p, <<req["w1"].subject, <<"view", "*">>, "GET">>)

\* GET in lower case is refused to a subject that has the rule for GET
C13_WitnessCase ==
    /\ Decided /\ ~req["w1"].allowed
    /\ req["w1"].path = <<"view", "Home">> /\ req["w1"].method = "get"
    /\ HasPolicy(p, <<req["w1"].subject, <<"view", "*">>, "GET">>)

\* no tuple is in the rule table twice
NoDuplicateRule == \A m \in 1..Len(p), n \in 1..Len(p) : p[m] = p[n] => m = n

\* C14: the rule table never holds a tuple twice, whatever is added to it, and
\* a seeding run that follows a seeding run leaves the rule table and the role
\* edges exactly as the earlier run left them.
C14_SeedingIdempotent ==
    /\ []NoDuplicateRule
    /\ [][(req["w1"].kind = "seed" /\ req'["w1"].kind = "seed")
            => (p' = p /\ g' = g)]_vars

\* seeding has run twice in a row on a table that holds more than the defaults
C14_Witness ==
    /\ req["w1"].kind = "seed" /\ req["w1"].i = 2
    /\ HasPolicy(p, <<"editor", <<"save", "NewCategorizedPage">>, "POST">>)
    /\ HasPolicy(p, <<"anonymous", <<"auth", "callback">>, "GET">>)
    /\ <<"editor", "anonymous">> \in g /\ <<"u1", "editor">> \in g

\* C15: every call of Enforce that has begun returns a decision, whatever the
\* role edges are: a role that inherits from itself or a cycle of roles does
\* not keep the closure going.
C15_EnforceTerminates ==
    (req["w1"].kind = "enforce" /\ req["w1"].pc = "closure") ~> Decided

\* a decision for a subject whose roles lie on a cycle and on a self-loop
C15_Witness ==
    /\ Decided
    /\ req["w1"].subject = "u1"
    /\ {<<"u1", "editor">>, <<"editor", "editor">>,
        <<"editor", "anonymous">>, <<"anonymous", "editor">>} \subseteq g
    /\ req["w1"].visited = {"u1", "editor", "anonymous"}

\* C19: when seeding has just run, whatever Enforce allows to anonymous it
\* allows to a subject whose only role is editor.
C19_EditorInheritsAnonymous ==
    (req["w1"].kind = "seed" /\ GetRolesForUser(g, "u1") = {"editor"}) =>
        \A obj \in QueryPaths, act \in QueryMethods :
            Enforce(p, g, "anonymous", obj, act) => Enforce(p, g, "u1", obj, act)

\* after seeding, u1 is an editor only and gets the login route, for which
\* the only rule is one of anonymous
C19_Witness ==
    /\ req["w1"].kind = "seed"
    /\ GetRolesForUser(g, "u1") = {"editor"}
    /\ Enforce(p, g, "anonymous", <<"auth", "login">>, "GET")
    /\ Enforce(p, g, "u1", <<"auth", "login">>, "GET")
    /\ ~\E n \in 1..Len(p) : p[n][1] # "anonymous" /\ p[n][2] = <<"auth", "login">>

(***************************************************************************)
(* Properties of concurrent requests                                       *)
(***************************************************************************)
\* C16: while a call that changes the role edges is in progress on the
\* enforcer, no other call on it is in progress; calls that only read may
\* overlap.
C16_ReaderWriterDiscipline ==
    \A w \in Workers, v \in Workers :
        (w # v /\ req[w].eng /\ req[v].eng) =>
            (EngineAccess(req[w]) = "read" /\ EngineAccess(req[v]) = "read")

\* a callback that has passed the state check
PassedValidation(w) ==
    req[w].kind = "callback" /\ req[w].pc # "cb_validate" /\ req[w].code # 400

\* C22: of two callbacks in service that carry the same session cookie and
\* the same state value, at most one has passed state validation.
C22_SingleUseConcurrent ==
    \A w \in Callbacks, v \in Callbacks :
        (w # v /\ req[w].sid = req[v].sid /\ req[w].qstate = req[v].qstate) =>
            ~(PassedValidation(w) /\ PassedValidation(v))

\* C23: when two callbacks of two sessions for the same subject have both
\* gone through, the subject's direct role edges are the roles of one of the
\* two tokens.
C23_RoleSyncConverges ==
    \A w \in Callbacks, v \in Callbacks :
        ( /\ w # v /\ req[w].sid # req[v].sid
          /\ Successful(w) /\ Successful(v)
          /\ req[w].token.sub = req[v].token.sub )
        => \/ GetRolesForUser(g, req[w].token.sub) = Range(req[w].token.roles)
           \/ GetRolesForUser(g, req[w].token.sub) = Range(req[v].token.roles)

\* callback v is replacing the roles of its token's subject
Synchronizing(v) ==
    req[v].kind = "callback" /\ req[v].pc \in {"cb_delete", "cb_add"}

\* C25: a protected request of subject s on which Enforce has answered is not
\* answered 403 while a callback of another session is replacing the roles of
\* s, when s had the role editor before, the callback's token has it too, and
\* the request is one that the role editor allows.
C25_RoleReplacementAtomic ==
    \A w \in Protected, v \in Callbacks :
        ( /\ Synchronizing(v)
          /\ req[w].sid # req[v].sid
          /\ req[w].subject = req[v].token.sub
          /\ req[w].enfCalled /\ ~req[w].enfErr
          /\ <<req[v].token.sub, "editor">> \in req[v].g0
          /\ "editor" \in Range(req[v].token.roles)
          /\ Enforce(p, req[v].g0, req[w].subject, req[w].path, req[w].method) )
        => req[w].code # 403

(***************************************************************************)
(* Properties of the page cache                                            *)
(***************************************************************************)
\* C24: a ViewPage call that returns a page returns content at least as new
\* as that of the latest UpdatePage that had returned its page when the
\* ViewPage call began.
C24_CacheInvalidatedByUpdate ==
    \A w \in Workers :
        (calls[w].op = "view" /\ calls[w].pc = "returned" /\ ~calls[w].err) =>
            calls[w].result.content >= calls[w].after

(***************************************************************************)
(* Properties of a process that stops                                      *)
(***************************************************************************)
\* C17: once a callback has passed state validation, the session in the
\* store no longer holds that state value, also when the process stopped
\* before the exchange: a later callback that carries the value finds a
\* session it does not match.
C17_StateRemovalDurable ==
    \A w \in Callbacks : req[w].replay => req[w].sess0.state # req[w].qstate

====
